---- MODULE Spec2Model ----
(***************************************************************************)
(* Job-application progression of swiss-jobs-bot (src/app.py).             *)
(*                                                                         *)
(* The program is a Streamlit script: every user interaction runs the      *)
(* script from the top against the user's Firestore document and the       *)
(* per-session st.session_state.  One action of this module is one such    *)
(* script run (including the run that st.rerun() starts).                  *)
(*                                                                         *)
(* Encoding.  Python text is a sequence of symbols; the literals the code  *)
(* searches for or inserts ("Subject:", "Body:", the placeholder subject,  *)
(* the fallback body) are single symbols.  An optional value is None (the  *)
(* empty tuple) or Some(v) (the one-element tuple).                        *)
(***************************************************************************)
EXTENDS Integers, Sequences, FiniteSets, TLC

\* ---------------------------------------------------------------- bounds
\* Number of rows of the job CSV.
NJobs == 3
\* Longest composer reply drawn in ComposeSpec.
MaxRespLen == 4
\* Messages the Gmail API accepts before the model stops sending.
MaxOutbox == 2

\* ---------------------------------------------------------------- options
None == <<>>
Some(v) == <<v>>
Val(o) == o[1]

\* Python truthiness of an optional text: None and "" are falsy.
Truthy(o) == o # None /\ Val(o) # <<>>

\* ---------------------------------------------------------------- text
\* `pat in s` for texts.
Contains(s, pat) ==
  \E k \in 1..(Len(s) - Len(pat) + 1) : SubSeq(s, k, k + Len(pat) - 1) = pat

\* Index of the first occurrence of pat in s, 0 when there is none.
Find(s, pat) ==
  IF Contains(s, pat)
  THEN CHOOSE k \in 1..(Len(s) - Len(pat) + 1) :
         /\ SubSeq(s, k, k + Len(pat) - 1) = pat
         /\ \A m \in 1..(k - 1) : SubSeq(s, m, m + Len(pat) - 1) # pat
  ELSE 0

\* s.split(pat)[0]
Split0(s, pat) ==
  IF Find(s, pat) = 0 THEN s ELSE SubSeq(s, 1, Find(s, pat) - 1)

\* s.split(pat)[1], for s that contains pat
Split1(s, pat) ==
  LET rest == SubSeq(s, Find(s, pat) + Len(pat), Len(s))
  IN  Split0(rest, pat)

\* s.replace(tok, '') for a literal that is one symbol
Replace(s, tok) == SelectSeq(s, LAMBDA c : c # tok)

\* s.strip()
Strip(s) ==
  LET body == {k \in 1..Len(s) : s[k] # " "}
  IN  IF body = {} THEN <<>>
      ELSE SubSeq(s, CHOOSE a \in body : \A b \in body : a <= b,
                     CHOOSE a \in body : \A b \in body : a >= b)

\* ---------------------------------------------------------------- composer
Delim == <<"|", "|", "|">>
PlaceholderSubject == <<"Bewerbung fuer die ausgeschriebene Position">>
FallbackBody == <<"Could not generate email body.">>

\* call_openai_api: None when the API call raises, else the stripped reply.
call_openai_api(reply) ==
  IF reply = None THEN None ELSE Some(Strip(Val(reply)))

\* A variant that stores an empty subject when the delimiter is missing.
generate_personalized_email_EmptySubject(cv_content, reply) ==
  LET response == call_openai_api(reply) IN
  IF ~Truthy(cv_content) THEN [subject |-> <<>>, body |-> <<>>]
  ELSE IF Truthy(response) /\ Contains(Val(response), Delim)
  THEN [subject |-> Strip(Replace(Split0(Val(response), Delim), "Subject:")),
        body    |-> Strip(Replace(Split1(Val(response), Delim), "Body:"))]
  ELSE [subject |-> <<>>,
        body    |-> IF Truthy(response) THEN Val(response) ELSE FallbackBody]

\* generate_personalized_email(cv_content, ...): `reply` is what the model
\* API answers for the prompt (None: the call failed).
generate_personalized_email(cv_content, reply) ==
  LET response == call_openai_api(reply) IN
  IF ~Truthy(cv_content) THEN [subject |-> <<>>, body |-> <<>>]
  ELSE IF Truthy(response) /\ Contains(Val(response), Delim)
  THEN [subject |-> Strip(Replace(Split0(Val(response), Delim), "Subject:")),
        body    |-> Strip(Replace(Split1(Val(response), Delim), "Body:"))]
  ELSE [subject |-> PlaceholderSubject,
        body    |-> IF Truthy(response) THEN Val(response) ELSE FallbackBody]

\* ---------------------------------------------------------------- catalog
\* A cell pandas reads as NaN (an empty CSV cell): a float, not a str.
NaN == <<"nan">>
isinstance_str(cell) == cell # NaN

\* Values of the "Application Contact Email" column.
EmailValues == { NaN, <<"a">>, <<"a", "@", ",", "b", "@">> }

JobTitles == { "Assistenzarzt" }

JobIds == 0..(NJobs - 1)

\* Rows of jobs_df; row idx of the frame is df[idx + 1].
Rows == [contact : EmailValues, job_title : JobTitles]

\* A condition that accepts every string cell, with or without "@".
Selectable_AnyString(applied_jobs, idx, row) ==
  /\ ToString(idx) \notin applied_jobs
  /\ isinstance_str(row.contact)

\* The condition of the generator expression at line 216.
Selectable(applied_jobs, idx, row) ==
  /\ ToString(idx) \notin applied_jobs
  /\ isinstance_str(row.contact)
  /\ Contains(row.contact, <<"@">>)

\* A scan that forgets the applied set.
next_job_IgnoreApplied(applied_jobs, df) ==
  IF \E idx \in 0..(Len(df) - 1) : Selectable({}, idx, df[idx + 1])
  THEN Some(CHOOSE idx \in 0..(Len(df) - 1) :
              /\ Selectable({}, idx, df[idx + 1])
              /\ \A m \in 0..(idx - 1) : ~Selectable({}, m, df[m + 1]))
  ELSE None

RECURSIVE ScanFrom(_, _, _)
\* next(generator, None): iterrows() from row idx on.
ScanFrom(applied_jobs, df, idx) ==
  IF idx >= Len(df) THEN None
  ELSE IF Selectable(applied_jobs, idx, df[idx + 1]) THEN Some(idx)
  ELSE ScanFrom(applied_jobs, df, idx + 1)

\* next_job of render_job_finder: Some(job_id) or None.
next_job(applied_jobs, df) == ScanFrom(applied_jobs, df, 0)

\* ---------------------------------------------------------------- state
VARIABLES
  jobs_df,        \* the rows of CSV_FILE, in file order
  db,             \* the user's Firestore document and its sent_emails
  session_state,  \* st.session_state of the browser session
  outbox,         \* messages the Gmail API has accepted
  hist,           \* history: per job, the records and counter steps it caused
  last            \* history: the last script run, its job and how it ended

vars == <<jobs_df, db, session_state, outbox, hist, last>>

\* Values of the upload widgets (the uploaded names, the text PyPDF2 finds in
\* the first file, the translation the model API returns) and of the send
\* form (None: submitted as filled in; Some: the user retyped the fields).
Uploads == { <<"cv.pdf", "ref.pdf">> }
PdfTexts == { None, Some(<<"c">>) }
Translations == { Some(<<"k">>) }
TypedForms ==
  { None, Some([to |-> <<"c", "@">>, subject |-> <<"s">>, body |-> <<"b">>]) }
AsDrafted == { None }
\* The reply of the model API drawn in Spec; ComposeSpec draws Replies.
SampleReplies == { Some(<<"Subject:", "s", "|", "|", "|", "Body:", "b">>) }
ReplySymbols == { "|", "a", " ", "Subject:", "Body:" }
Replies ==
  {None} \cup
  { Some(t) : t \in UNION { [1..n -> ReplySymbols] : n \in 0..MaxRespLen } }

\* A document that holds only gmail_token: every read falls back to its
\* default (lines 212, 404, 405, 425-428).
FreshDb ==
  [ applied_jobs |-> {},
    stats        |-> [sent_count |-> 0, skipped_count |-> 0],
    sent_emails  |-> <<>>,
    attachments  |-> <<>>,
    cv_text      |-> None,
    gmail_token  |-> "token" ]

\* default_states (lines 341-348); the two *_details keys are set on use.
default_states ==
  [ cv_text                 |-> None,
    attachments             |-> <<>>,
    current_job_id          |-> None,
    generated_email_content |-> None,
    current_job_details     |-> None,
    manual_email_content    |-> None,
    manual_job_details      |-> None ]

NoHist == [j \in JobIds |-> [records |-> 0, sent |-> 0, skipped |-> 0]]

\* The state a script run works on; ctl tells how the run left a function:
\* "return", "rerun" (st.rerun()) or "raise" (an uncaught exception).
World == [db |-> db, ss |-> session_state, outbox |-> outbox, hist |-> hist,
          ctl |-> "return"]

\* ---------------------------------------------------------------- store
\* A write that replaces the stored list by the one new id.
ArrayUnion_Overwrite(w, id) == [w EXCEPT !.db.applied_jobs = {id}]

\* update_user_data(db, user_email, {"applied_jobs": ArrayUnion([id])})
ArrayUnion(w, id) == [w EXCEPT !.db.applied_jobs = @ \cup {id}]

\* An update that stores 1 instead of incrementing.
IncrementSkipped_SetsOne(w, j) ==
  [w EXCEPT !.db.stats.skipped_count = 1, !.hist[j].skipped = @ + 1]

\* document.update({'stats.skipped_count': Increment(1)}) for job j
IncrementSkipped(w, j) ==
  [w EXCEPT !.db.stats.skipped_count = @ + 1, !.hist[j].skipped = @ + 1]

\* document.update({'stats.sent_count': Increment(1)}) for job j
IncrementSent(w, j) ==
  [w EXCEPT !.db.stats.sent_count = @ + 1, !.hist[j].sent = @ + 1]

\* A credential refresh written without merge=True: the document is
\* replaced by the one field.
load_creds_NoMerge(w, expired) ==
  IF expired THEN [w EXCEPT !.db = FreshDb] ELSE w

\* load_creds (lines 67-82): an expired token is refreshed and stored with
\* set({'gmail_token': ...}, merge=True); the token's content is one symbol.
load_creds(w, expired) ==
  IF expired THEN [w EXCEPT !.db.gmail_token = "token"] ELSE w

\* save_sent_email: add one document to the sent_emails sub-collection.
save_sent_email(w, email_data) ==
  [w EXCEPT !.db.sent_emails = Append(@, email_data)]

\* ---------------------------------------------------------------- main
\* Lines 403-405: every run copies cv_text and attachments into the session.
LoadProfile(w) ==
  [w EXCEPT !.ss.cv_text = w.db.cv_text, !.ss.attachments = w.db.attachments]

\* Line 407: the pages are reached only with a CV text and an attachment.
HasDocuments(w) == Truthy(w.ss.cv_text) /\ w.ss.attachments # <<>>

\* ---------------------------------------------------------------- finder
\* str(cell).strip().split(",")[0]
FirstAddress(cell) == Split0(Strip(cell), <<",">>)

\* A selection step that keeps the details of the job shown before.
SelectJob_KeepsDetails(w, df, job_id) ==
  IF w.ss.current_job_id # Some(job_id)
  THEN [w EXCEPT
          !.ss.current_job_id = Some(job_id),
          !.ss.generated_email_content = None,
          !.ss.current_job_details =
             IF @ # None THEN @
             ELSE Some([job_id        |-> job_id,
                        job_title     |-> df[job_id + 1].job_title,
                        contact_email |->
                           FirstAddress(df[job_id + 1].contact)])]
  ELSE w

\* A selection step that also records the selected id as applied.
SelectJob_MarksApplied(w, df, job_id) ==
  IF w.ss.current_job_id # Some(job_id)
  THEN [w EXCEPT
          !.db.applied_jobs = @ \cup {ToString(job_id)},
          !.ss.current_job_id = Some(job_id),
          !.ss.generated_email_content = None,
          !.ss.current_job_details =
             Some([job_id        |-> job_id,
                   job_title     |-> df[job_id + 1].job_title,
                   contact_email |-> FirstAddress(df[job_id + 1].contact)])]
  ELSE w

\* A selection step that resets the draft on every run.
SelectJob_AlwaysReset(w, df, job_id) ==
  [w EXCEPT
     !.ss.current_job_id = Some(job_id),
     !.ss.generated_email_content = None,
     !.ss.current_job_details =
        Some([job_id        |-> job_id,
              job_title     |-> df[job_id + 1].job_title,
              contact_email |-> FirstAddress(df[job_id + 1].contact)])]

\* Lines 222-230: a newly selected job replaces the session's job and draft.
SelectJob(w, df, job_id) ==
  IF w.ss.current_job_id # Some(job_id)
  THEN [w EXCEPT
          !.ss.current_job_id = Some(job_id),
          !.ss.generated_email_content = None,
          !.ss.current_job_details =
             Some([job_id        |-> job_id,
                   job_title     |-> df[job_id + 1].job_title,
                   contact_email |-> FirstAddress(df[job_id + 1].contact)])]
  ELSE w

\* A Prepare button that already records the job as applied.
PrepareApplication_MarksApplied(w, reply) ==
  [w EXCEPT !.db.applied_jobs =
              @ \cup {ToString(Val(w.ss.current_job_details).job_id)},
            !.ss.generated_email_content =
              Some(generate_personalized_email(w.ss.cv_text, reply))]

\* Lines 235-240: the Prepare button stores the composer's draft.
PrepareApplication(w, reply) ==
  [w EXCEPT !.ss.generated_email_content =
              Some(generate_personalized_email(w.ss.cv_text, reply))]

SkipOutcomes == {"ok", "union_raises", "increment_raises"}

\* A skip that counts but does not record the job.
SkipJob_NoUnion(w, outcome) ==
  LET j == Val(w.ss.current_job_details).job_id IN
  IF outcome = "union_raises" THEN [w EXCEPT !.ctl = "raise"]
  ELSE IF outcome = "increment_raises" THEN [w EXCEPT !.ctl = "raise"]
  ELSE [IncrementSkipped(w, j) EXCEPT !.ss.current_job_id = None, !.ctl = "rerun"]

\* Lines 241-244: the Skip button. Two store writes, either of which may
\* raise and end the run; then the session's job is cleared and the script
\* is rerun.
SkipJob(w, outcome) ==
  LET j  == Val(w.ss.current_job_details).job_id
      w1 == ArrayUnion(w, ToString(j))
      w2 == IncrementSkipped(w1, j)
  IN  IF outcome = "union_raises" THEN [w EXCEPT !.ctl = "raise"]
      ELSE IF outcome = "increment_raises" THEN [w1 EXCEPT !.ctl = "raise"]
      ELSE [w2 EXCEPT !.ss.current_job_id = None, !.ctl = "rerun"]

\* ---------------------------------------------------------------- form
SendOutcomes ==
  {"ok", "mail_fails", "save_raises", "union_raises", "increment_raises"}

\* A manual send that also marks the session's catalog job as applied.
CommitSend_ManualMarksJob(w, is_manual, details, email_data, outcome) ==
  LET w1 == save_sent_email(w, email_data) IN
  IF outcome = "save_raises" THEN [w EXCEPT !.ctl = "raise"]
  ELSE IF is_manual /\ w.ss.current_job_id # None
  THEN [ArrayUnion(w1, ToString(Val(w.ss.current_job_id)))
          EXCEPT !.ss.manual_email_content = None,
                 !.ss.current_job_id = None, !.ctl = "rerun"]
  ELSE IF is_manual
  THEN [w1 EXCEPT !.ss.manual_email_content = None, !.ctl = "rerun"]
  ELSE LET j  == details.job_id
           w2 == [w1 EXCEPT !.hist[j].records = @ + 1]
           w3 == ArrayUnion(w2, ToString(j))
           w4 == IncrementSent(w3, j)
       IN  IF outcome = "union_raises" THEN [w2 EXCEPT !.ctl = "raise"]
           ELSE IF outcome = "increment_raises" THEN [w3 EXCEPT !.ctl = "raise"]
           ELSE [w4 EXCEPT !.ss.current_job_id = None, !.ctl = "rerun"]

\* A commit that records the mail and the job but never counts it.
CommitSend_NoCount(w, is_manual, details, email_data, outcome) ==
  LET w1 == save_sent_email(w, email_data) IN
  IF outcome = "save_raises" THEN [w EXCEPT !.ctl = "raise"]
  ELSE IF is_manual
  THEN [w1 EXCEPT !.ss.manual_email_content = None, !.ctl = "rerun"]
  ELSE LET j  == details.job_id
           w2 == [w1 EXCEPT !.hist[j].records = @ + 1]
           w3 == ArrayUnion(w2, ToString(j))
       IN  IF outcome = "union_raises" THEN [w2 EXCEPT !.ctl = "raise"]
           ELSE IF outcome = "increment_raises" THEN [w3 EXCEPT !.ctl = "raise"]
           ELSE [w3 EXCEPT !.ss.current_job_id = None, !.ctl = "rerun"]

\* Lines 267-277: what follows a send that Gmail accepted. Three store
\* writes for a catalog job (record, applied id, counter), one for a manual
\* job; a write that raises ends the run with the earlier writes in place.
CommitSend(w, is_manual, details, email_data, outcome) ==
  LET w1 == save_sent_email(w, email_data) IN
  IF outcome = "save_raises" THEN [w EXCEPT !.ctl = "raise"]
  ELSE IF is_manual
  THEN [w1 EXCEPT !.ss.manual_email_content = None, !.ctl = "rerun"]
  ELSE LET j  == details.job_id
           w2 == [w1 EXCEPT !.hist[j].records = @ + 1]
           w3 == ArrayUnion(w2, ToString(j))
           w4 == IncrementSent(w3, j)
       IN  IF outcome = "union_raises" THEN [w2 EXCEPT !.ctl = "raise"]
           ELSE IF outcome = "increment_raises" THEN [w3 EXCEPT !.ctl = "raise"]
           ELSE [w4 EXCEPT !.ss.current_job_id = None, !.ctl = "rerun"]

\* send_email_logic: TRUE when the Gmail API accepts the message; every
\* exception is caught and reported as FALSE.
send_email_logic(outcome) == outcome # "mail_fails"

\* A form handler that sends without looking at the attachments.
SubmitForm_NoAttachmentCheck(w, is_manual, details, email_content, typed, outcome) ==
  LET contact_email == IF typed = None THEN details.contact_email
                       ELSE Val(typed).to
      subject == IF typed = None THEN email_content.subject
                 ELSE Val(typed).subject
      body    == IF typed = None THEN email_content.body ELSE Val(typed).body
      email_data == [recipient |-> contact_email, subject |-> subject,
                     body |-> body, job_title |-> details.job_title]
  IN  IF ~send_email_logic(outcome) THEN w
      ELSE CommitSend([w EXCEPT !.outbox = @ + 1], is_manual, details,
                      email_data, outcome)

\* A form handler that drops the draft when Gmail refuses the message.
SubmitForm_DropsDraft(w, is_manual, details, email_content, typed, outcome) ==
  LET contact_email == IF typed = None THEN details.contact_email
                       ELSE Val(typed).to
      subject == IF typed = None THEN email_content.subject
                 ELSE Val(typed).subject
      body    == IF typed = None THEN email_content.body ELSE Val(typed).body
      email_data == [recipient |-> contact_email, subject |-> subject,
                     body |-> body, job_title |-> details.job_title]
  IN  IF w.ss.attachments = <<>> THEN w
      ELSE IF ~send_email_logic(outcome)
      THEN [w EXCEPT !.ss.generated_email_content = None]
      ELSE CommitSend([w EXCEPT !.outbox = @ + 1], is_manual, details,
                      email_data, outcome)

\* Lines 254-266: the submitted form. typed = None leaves the three fields
\* at the values the form was filled with.
SubmitForm(w, is_manual, details, email_content, typed, outcome) ==
  LET contact_email == IF typed = None THEN details.contact_email
                       ELSE Val(typed).to
      subject == IF typed = None THEN email_content.subject
                 ELSE Val(typed).subject
      body    == IF typed = None THEN email_content.body ELSE Val(typed).body
      email_data == [recipient |-> contact_email, subject |-> subject,
                     body |-> body, job_title |-> details.job_title]
  IN  IF w.ss.attachments = <<>> THEN w
      ELSE IF ~send_email_logic(outcome) THEN w
      ELSE CommitSend([w EXCEPT !.outbox = @ + 1], is_manual, details,
                      email_data, outcome)

\* render_application_form with the send button pressed. Reading a missing
\* draft or missing details raises before anything is done.
render_application_form(w, is_manual, typed, outcome) ==
  LET details == IF is_manual THEN w.ss.manual_job_details
                 ELSE w.ss.current_job_details
      email_content == IF is_manual THEN w.ss.manual_email_content
                       ELSE w.ss.generated_email_content
  IN  IF details = None \/ email_content = None
      THEN [w EXCEPT !.ctl = "raise"]
      ELSE SubmitForm(w, is_manual, Val(details), Val(email_content),
                      typed, outcome)

\* ---------------------------------------------------------------- uploads
Accents == {"a_grave", "e_acute", "a_circumflex", "c_cedilla"}

\* process_and_save_files: files are the uploaded names, raw_cv_text what
\* extract_text_from_pdf returns, translation what the model API answers.
process_and_save_files(w, files, raw_cv_text, translation, outcome) ==
  LET cv_text ==
        IF ~Truthy(raw_cv_text) THEN Some(<<>>)
        ELSE IF \E k \in 1..Len(Val(raw_cv_text)) : Val(raw_cv_text)[k] \in Accents
        THEN raw_cv_text
        ELSE call_openai_api(translation)
  IN  IF outcome = "update_raises" THEN [w EXCEPT !.ctl = "raise"]
      ELSE [w EXCEPT !.db.attachments = files, !.db.cv_text = cv_text,
                     !.ss.attachments = files, !.ss.cv_text = cv_text,
                     !.ctl = "rerun"]

\* ---------------------------------------------------------------- script
NoClick == [button |-> "none", reply |-> None, typed |-> None, outcome |-> "ok"]

\* render_job_finder with at most one button pressed.
render_job_finder(w, df, click) ==
  LET chosen == next_job(w.db.applied_jobs, df) IN
  IF chosen = None THEN w
  ELSE LET w1 == SelectJob(w, df, Val(chosen)) IN
       CASE click.button = "prepare" -> PrepareApplication(w1, click.reply)
         [] click.button = "skip"    -> SkipJob(w1, click.outcome)
         [] click.button = "send" /\ w1.ss.generated_email_content # None
              -> render_application_form(w1, FALSE, click.typed, click.outcome)
         [] OTHER -> w1

\* The run st.rerun() starts: no button is pressed; the page is the Job
\* Finder (the radio's value, and its default after the upload page).
Rerun(w, df) ==
  LET w1 == LoadProfile([w EXCEPT !.ctl = "return"]) IN
  IF HasDocuments(w1) THEN render_job_finder(w1, df, NoClick) ELSE w1

\* One run of the script on the Job Finder page, reruns included.
RunJobFinder(w, df, click) ==
  LET w1 == render_job_finder(LoadProfile(w), df, click) IN
  IF w1.ctl = "rerun" THEN Rerun(w1, df) ELSE w1

\* One run that saves uploaded files. From the first-upload page the rerun
\* lands on the Job Finder; from Settings it stays on Settings.
RunUpload(w, df, from_settings, files, raw_cv_text, translation, outcome) ==
  LET w1 == process_and_save_files(LoadProfile(w), files, raw_cv_text,
                                   translation, outcome)
  IN  IF w1.ctl # "rerun" THEN w1
      ELSE IF from_settings THEN LoadProfile([w1 EXCEPT !.ctl = "return"])
      ELSE Rerun(w1, df)

\* ---------------------------------------------------------------- actions
Ran(op, job, outcome, arg) ==
  [op |-> op, job |-> job, outcome |-> outcome, arg |-> arg]

Apply(w, ran) ==
  /\ db' = w.db
  /\ session_state' = w.ss
  /\ outbox' = w.outbox
  /\ hist' = w.hist
  /\ last' = ran
  /\ UNCHANGED jobs_df

\* What line 216 finds for the document as it is now.
Selected == next_job(db.applied_jobs, jobs_df)

\* The Job Finder shows a job (and with it the Prepare and Skip buttons).
JobShown == HasDocuments(LoadProfile(World)) /\ Selected # None

\* Line 245: the form is shown when the session holds a draft for the job.
FormShown ==
  /\ JobShown
  /\ SelectJob(LoadProfile(World), jobs_df, Val(Selected))
       .ss.generated_email_content # None

\* Dashboard, Settings or the first-upload page, nothing pressed.
OpenPage == Apply(LoadProfile(World), Ran("open", None, "ok", None))

\* The Job Finder page, nothing pressed.
OpenJobFinder ==
  /\ HasDocuments(LoadProfile(World))
  /\ Apply(RunJobFinder(World, jobs_df, NoClick),
           Ran("finder", Selected, "ok", None))

ClickPrepare ==
  \E reply \in SampleReplies :
    /\ JobShown
    /\ Apply(RunJobFinder(World, jobs_df,
                          [NoClick EXCEPT !.button = "prepare", !.reply = reply]),
             Ran("prepare", Selected, "ok", reply))

ClickSkip ==
  \E outcome \in SkipOutcomes :
    /\ JobShown
    /\ Apply(RunJobFinder(World, jobs_df,
                          [NoClick EXCEPT !.button = "skip", !.outcome = outcome]),
             Ran("skip", Selected, outcome, None))

ClickSend ==
  \E typed \in AsDrafted, outcome \in SendOutcomes :
    /\ FormShown
    /\ outcome # "mail_fails" => outbox < MaxOutbox
    /\ Apply(RunJobFinder(World, jobs_df,
                          [NoClick EXCEPT !.button = "send", !.typed = typed,
                                          !.outcome = outcome]),
             Ran("send", Selected, outcome, None))

InitialUpload ==
  \E files \in Uploads, raw \in PdfTexts, tr \in Translations,
     outcome \in {"ok", "update_raises"} :
    /\ ~HasDocuments(LoadProfile(World))
    /\ Apply(RunUpload(World, jobs_df, FALSE, files, raw, tr, outcome),
             Ran("upload", None, outcome, None))

SettingsUpload ==
  \E files \in Uploads, raw \in PdfTexts, tr \in Translations,
     outcome \in {"ok", "update_raises"} :
    /\ HasDocuments(LoadProfile(World))
    /\ Apply(RunUpload(World, jobs_df, TRUE, files, raw, tr, outcome),
             Ran("upload", None, outcome, None))

\* The browser session ends; the next one starts from default_states and
\* logs in from the cookie (lines 362-369), refreshing an expired token.
EndSession ==
  \E expired \in BOOLEAN :
    Apply(load_creds([World EXCEPT !.ss = default_states], expired),
          Ran("end", None, "ok", IF expired THEN Some("refreshed") ELSE None))

Init ==
  /\ jobs_df \in [1..NJobs -> Rows]
  /\ db = FreshDb
  /\ session_state = default_states
  /\ outbox = 0
  /\ hist = NoHist
  /\ last = Ran("init", None, "ok", None)

Next ==
  \/ OpenPage
  \/ OpenJobFinder
  \/ ClickPrepare
  \/ ClickSkip
  \/ ClickSend
  \/ InitialUpload
  \/ SettingsUpload
  \/ EndSession

Spec == Init /\ [][Next]_vars

\* ------------------------------------------------------------ ReliableSpec
\* One session in which every store write succeeds; sending the mail may
\* still fail (send_email_logic returns False and nothing is written).
ReliableSkip == ClickSkip /\ last'.outcome = "ok"

ReliableSend == ClickSend /\ last'.outcome \in {"ok", "mail_fails"}

ReliableInitialUpload == InitialUpload /\ last'.outcome = "ok"

ReliableSettingsUpload == SettingsUpload /\ last'.outcome = "ok"

ReliableNext ==
  \/ OpenPage
  \/ OpenJobFinder
  \/ ClickPrepare
  \/ ReliableSkip
  \/ ReliableSend
  \/ ReliableInitialUpload
  \/ ReliableSettingsUpload

ReliableSpec == Init /\ [][ReliableNext]_vars

\* ------------------------------------------------------------ ProgressSpec
\* One session of a user whose documents are stored, on the Job Finder page:
\* store writes may fail and mails may fail, but the user keeps pressing Skip
\* or sending until a skip or a send completes.
ProgressInit ==
  /\ jobs_df \in [1..NJobs -> Rows]
  /\ db = [FreshDb EXCEPT !.attachments = <<"cv.pdf">>,
                          !.cv_text = Some(<<"c">>)]
  /\ session_state = default_states
  /\ outbox = 0
  /\ hist = NoHist
  /\ last = Ran("init", None, "ok", None)

Advance == ReliableSkip \/ (ClickSend /\ last'.outcome = "ok")

ProgressNext ==
  \/ OpenJobFinder
  \/ ClickPrepare
  \/ ClickSkip
  \/ ClickSend

\* Weak fairness on Advance, WF_vars(Advance), with ENABLED <<Advance>>_vars
\* written as the condition under which the Skip button is on the page.
KeepsAdvancing == []<>(~JobShown) \/ []<><<Advance>>_vars

ProgressSpec == ProgressInit /\ [][ProgressNext]_vars /\ KeepsAdvancing

\* ---------------------------------------------------------------- UnitSpec
\* render_application_form and render_job_finder called directly, as a test
\* with fake collaborators calls them, on any profile and any session.
IdStrings == { ToString(j) : j \in JobIds }
SampleDraft == [subject |-> <<"s">>, body |-> <<"b">>]
ManualDetails == [job_title |-> "Manual", contact_email |-> <<"m", "@">>]

DetailsOf(df, job_id) ==
  [job_id        |-> job_id,
   job_title     |-> df[job_id + 1].job_title,
   contact_email |-> FirstAddress(df[job_id + 1].contact)]

\* A catalog whose rows can all be selected.
FullCatalog ==
  [k \in 1..NJobs |->
     [contact |-> <<"a", "@", ",", "b", "@">>, job_title |-> "Assistenzarzt"]]

\* Either any catalog with any applied set and a fresh session, or the full
\* catalog with any applied set and any session.
UnitInit ==
  /\ \E applied \in SUBSET IdStrings,
        files \in {<<>>, <<"cv.pdf">>},
        cur \in {None} \cup { Some(j) : j \in JobIds },
        draft \in {None, Some(SampleDraft)},
        manual \in BOOLEAN :
       /\ \/ /\ jobs_df \in [1..NJobs -> Rows]
             /\ files = <<"cv.pdf">> /\ cur = None /\ draft = None /\ ~manual
          \/ jobs_df = FullCatalog
       /\ db = [FreshDb EXCEPT !.applied_jobs = applied,
                               !.attachments = files,
                               !.cv_text = Some(<<"c">>)]
       /\ session_state =
            [default_states EXCEPT
               !.cv_text = Some(<<"c">>),
               !.attachments = files,
               !.current_job_id = cur,
               !.current_job_details =
                  IF cur = None THEN None
                  ELSE Some(DetailsOf(jobs_df, Val(cur))),
               !.generated_email_content = draft,
               !.manual_email_content =
                  IF manual THEN Some(SampleDraft) ELSE None,
               !.manual_job_details =
                  IF manual THEN Some(ManualDetails) ELSE None]
  /\ outbox = 0
  /\ hist = NoHist
  /\ last = Ran("init", None, "ok", None)

CallJobFinder ==
  Apply(render_job_finder(World, jobs_df, NoClick),
        Ran("finder", Selected, "ok", None))

CallCatalogForm ==
  \E typed \in TypedForms, outcome \in SendOutcomes :
    /\ outcome # "mail_fails" => outbox < MaxOutbox
    /\ Apply(render_application_form(World, FALSE, typed, outcome),
             Ran("send", session_state.current_job_id, outcome, None))

CallManualForm ==
  \E typed \in TypedForms, outcome \in {"ok", "mail_fails", "save_raises"} :
    /\ outcome # "mail_fails" => outbox < MaxOutbox
    /\ Apply(render_application_form(World, TRUE, typed, outcome),
             Ran("manual_send", None, outcome, None))

UnitNext == CallJobFinder \/ CallCatalogForm \/ CallManualForm

UnitSpec == UnitInit /\ [][UnitNext]_vars

\* ---------------------------------------------------------------- ComposeSpec
\* The Prepare button pressed once on a selected job, for every reply up to
\* MaxRespLen.
ComposeInit ==
  /\ jobs_df = FullCatalog
  /\ \E cv \in {None, Some(<<>>), Some(<<"c">>)} :
       /\ db = [FreshDb EXCEPT !.attachments = <<"cv.pdf">>, !.cv_text = cv]
       /\ session_state =
            [default_states EXCEPT
               !.cv_text = cv,
               !.attachments = <<"cv.pdf">>,
               !.current_job_id = Some(0),
               !.current_job_details = Some(DetailsOf(jobs_df, 0))]
  /\ outbox = 0
  /\ hist = NoHist
  /\ last = Ran("init", None, "ok", None)

CallPrepare ==
  \E reply \in Replies :
    /\ last.op = "init"
    /\ Apply(render_job_finder(World, jobs_df,
                               [NoClick EXCEPT !.button = "prepare",
                                               !.reply = reply]),
             Ran("prepare", Selected, "ok", reply))

ComposeNext == CallPrepare

ComposeSpec == ComposeInit /\ [][ComposeNext]_vars

\* ---------------------------------------------------------------- claims
HasAt(cell) == cell # NaN /\ \E k \in DOMAIN cell : cell[k] = "@"

\* C1: the selection of render_job_finder returns the first row, in file
\* order, whose index in string form is not in applied_jobs and whose contact
\* cell is a string containing '@'; it returns None exactly when there is no
\* such row.
C1_SelectNextFirstEligible ==
  LET open(j) == ToString(j) \notin db.applied_jobs /\ HasAt(jobs_df[j + 1].contact)
  IN  /\ Selected = None <=> ~\E j \in JobIds : open(j)
      /\ Selected # None =>
           /\ Val(Selected) \in JobIds
           /\ open(Val(Selected))
           /\ \A m \in 0..(Val(Selected) - 1) : ~open(m)

\* C1 witness: with row 0 applied and row 1 without a usable address, the
\* finder has selected row 2.
C1_Witness ==
  /\ last.op = "finder"
  /\ db.applied_jobs = {"0"}
  /\ jobs_df[2].contact = NaN
  /\ session_state.current_job_id = Some(2)

\* C2: a skip that completes on the selected job J puts str(J) into
\* applied_jobs, raises skipped_count by exactly one and leaves sent_count
\* and the sent records alone; from then on the selection never returns J.
C2_SkipCompletes ==
  /\ [][(last'.op = "skip" /\ last'.outcome = "ok") =>
          /\ ToString(Val(last'.job)) \in db'.applied_jobs
          /\ db'.stats.skipped_count = db.stats.skipped_count + 1
          /\ db'.stats.sent_count = db.stats.sent_count
          /\ db'.sent_emails = db.sent_emails]_vars
  /\ [](\A j \in JobIds : hist[j].skipped > 0 => Selected # Some(j))

\* C2 witness: job 0 was skipped, job 1 cannot be selected, job 2 is next.
C2_Witness ==
  /\ last = Ran("skip", Some(0), "ok", None)
  /\ db.applied_jobs = {"0"}
  /\ db.stats.skipped_count = 1
  /\ ~HasAt(jobs_df[2].contact)
  /\ Selected = Some(2)
  /\ session_state.current_job_id = Some(2)

\* C3: a send of the selected catalog job J that completes (attachments
\* present, Gmail accepts, every write lands) appends exactly one sent
\* record, puts str(J) into applied_jobs, raises sent_count by exactly one
\* and leaves skipped_count alone; from then on the selection never returns J.
C3_SendCompletes ==
  /\ [][(last'.op = "send" /\ last'.outcome = "ok") =>
          /\ Len(db'.sent_emails) = Len(db.sent_emails) + 1
          /\ SubSeq(db'.sent_emails, 1, Len(db.sent_emails)) = db.sent_emails
          /\ ToString(Val(last'.job)) \in db'.applied_jobs
          /\ db'.stats.sent_count = db.stats.sent_count + 1
          /\ db'.stats.skipped_count = db.stats.skipped_count]_vars
  /\ [](\A j \in JobIds : hist[j].sent > 0 => Selected # Some(j))

\* C3 witness: job 0 was sent and recorded, the next job is selected.
C3_Witness ==
  /\ last = Ran("send", Some(0), "ok", None)
  /\ Len(db.sent_emails) = 1
  /\ db.applied_jobs = {"0"}
  /\ db.stats.sent_count = 1
  /\ outbox = 1
  /\ Selected = Some(1)

\* C4: when Gmail refuses the message the document is unchanged, nothing is
\* sent, the session keeps its job and its draft, and the form for the same
\* job is still shown, so the draft can be sent again as it is.
C4_SendFailureKeepsDraft ==
  [][(last'.op = "send" /\ last'.outcome = "mail_fails") =>
       /\ db' = db
       /\ outbox' = outbox
       /\ session_state'.current_job_id = Some(Val(last'.job))
       /\ session_state'.current_job_id = session_state.current_job_id
       /\ session_state'.generated_email_content # None
       /\ session_state'.generated_email_content =
            session_state.generated_email_content
       /\ FormShown']_vars

\* C4 witness: a refused send of job 0 left job 0 drafted and unrecorded.
C4_Witness ==
  /\ last = Ran("send", Some(0), "mail_fails", None)
  /\ session_state.current_job_id = Some(0)
  /\ session_state.generated_email_content # None
  /\ db.sent_emails = <<>>
  /\ db.applied_jobs = {}
  /\ FormShown

\* C5: a send pressed while the session holds no attachment sends nothing:
\* the Gmail API is not called, the document (records, applied_jobs,
\* counters) and the session (job, drafts) are as before.
C5_NoAttachmentNoSend ==
  [][(last'.op \in {"send", "manual_send"} /\ session_state.attachments = <<>>) =>
       /\ outbox' = outbox
       /\ db' = db
       /\ session_state' = session_state]_vars

\* C5 witness: the catalog form was submitted with a draft, a job and a
\* Gmail that would have accepted, but with no attachment; nothing was sent.
C5_Witness ==
  /\ last.op = "send"
  /\ last.outcome = "ok"
  /\ session_state.attachments = <<>>
  /\ session_state.current_job_details # None
  /\ session_state.generated_email_content # None
  /\ outbox = 0
  /\ db.sent_emails = <<>>

\* C6: a manual send that Gmail accepts and whose record is saved appends
\* exactly one sent record and raises sent_count by exactly one.
C6_ManualSendCounts ==
  [][(last'.op = "manual_send" /\ last'.outcome = "ok" /\ outbox' = outbox + 1) =>
       /\ Len(db'.sent_emails) = Len(db.sent_emails) + 1
       /\ db'.stats.sent_count = db.stats.sent_count + 1]_vars

\* C7: a manual send, whether it completes, is refused by Gmail, finds no
\* attachment or fails to save, changes neither applied_jobs nor
\* skipped_count nor the catalog side of the session (job, details, draft).
C7_ManualSendFrame ==
  [][last'.op = "manual_send" =>
       /\ db'.applied_jobs = db.applied_jobs
       /\ db'.stats.skipped_count = db.stats.skipped_count
       /\ session_state'.current_job_id = session_state.current_job_id
       /\ session_state'.current_job_details = session_state.current_job_details
       /\ session_state'.generated_email_content =
            session_state.generated_email_content]_vars

\* C7 witness: a manual send completed while a catalog job was drafted.
C7_Witness ==
  /\ last = Ran("manual_send", None, "ok", None)
  /\ outbox = 1
  /\ Len(db.sent_emails) = 1
  /\ db.sent_emails[1].job_title = "Manual"
  /\ session_state.manual_email_content = None
  /\ session_state.current_job_id # None
  /\ session_state.generated_email_content # None

\* C8: skip is all-or-nothing: after a Skip run on job J, however it ended,
\* str(J) is in applied_jobs exactly when the run's counter step was made.
C8_SkipAllOrNothing ==
  last.op = "skip" =>
    (ToString(Val(last.job)) \in db.applied_jobs
       <=> hist[Val(last.job)].skipped = 1)

\* C9: each catalog job advances at most once: it adds at most one to
\* sent_count + skipped_count, gets at most one sent record, and is never
\* both skipped and sent.
C9_AtMostOnce ==
  \A j \in JobIds :
    /\ hist[j].sent + hist[j].skipped <= 1
    /\ hist[j].records <= 1
    /\ ~(hist[j].skipped > 0 /\ (hist[j].records > 0 \/ hist[j].sent > 0))

\* The text the composer handed back in the last Prepare run.
ComposerText == call_openai_api(last.arg)

NoDelimiterCase ==
  /\ last.op = "prepare"
  /\ Truthy(session_state.cv_text)
  /\ ComposerText # None
  /\ ~Contains(Val(ComposerText), Delim)

\* C10 as stated: composer text without the delimiter (CV text present) is
\* stored as {subject: "", body: the full text}. Stated here for the texts
\* that are not empty.
C10_EmptySubject ==
  (NoDelimiterCase /\ Val(ComposerText) # <<>>) =>
    session_state.generated_email_content =
      Some([subject |-> <<>>, body |-> Val(ComposerText)])

\* C10 amended: composer text without the delimiter (CV text present) is
\* stored, without raising, under the fixed placeholder subject; the body is
\* the full text, or the fixed fallback body when the text is empty.
C10_PlaceholderSubject ==
  NoDelimiterCase =>
    session_state.generated_email_content =
      Some([subject |-> PlaceholderSubject,
            body    |-> IF Val(ComposerText) = <<>> THEN FallbackBody
                        ELSE Val(ComposerText)])

\* C10 witness: the reply " a||" was stored, stripped, under the placeholder
\* subject.
C10_Witness ==
  /\ NoDelimiterCase
  /\ last.arg = Some(<<" ", "a", "|", "|">>)
  /\ session_state.generated_email_content =
       Some([subject |-> PlaceholderSubject, body |-> <<"a", "|", "|">>])


\* C11: a finder run whose selection equals the session's current_job_id
\* leaves the draft and the job details as they are; a run whose selection
\* differs makes the selected job the session's job and empties the draft.
C11_ReentryKeepsDraft ==
  [][(last'.op = "finder" /\ Selected # None) =>
       IF Selected = session_state.current_job_id
       THEN /\ session_state'.generated_email_content =
                 session_state.generated_email_content
            /\ session_state'.current_job_details =
                 session_state.current_job_details
            /\ session_state'.current_job_id = session_state.current_job_id
       ELSE /\ session_state'.generated_email_content = None
            /\ session_state'.current_job_id = Selected]_vars

\* C11 witness: the finder ran on the job the session already held and the
\* draft is still there.
C11_Witness ==
  /\ last.op = "finder"
  /\ Selected = Some(1)
  /\ session_state.current_job_id = Some(1)
  /\ session_state.generated_email_content = Some(SampleDraft)


\* C12: applied_jobs only grows: every step of every operation (finder run,
\* prepare, skip, send with any outcome, upload, session end with credential
\* refresh) leaves a superset of the set it found, and the union write of an
\* id that is already in the set leaves the set as it is.
C12_AppliedOnlyGrows ==
  /\ [](\A id \in db.applied_jobs :
          ArrayUnion(World, id).db.applied_jobs = db.applied_jobs)
  /\ [][db.applied_jobs \subseteq db'.applied_jobs]_vars

\* C12 witness: two ids are stored and a later session refreshed the token.
C12_Witness ==
  /\ last.op = "end"
  /\ last.arg = Some("refreshed")
  /\ db.applied_jobs = {"0", "2"}
  /\ db.attachments # <<>>


\* C13: a row whose contact cell is NaN or a string without "@" is never the
\* selection, never the session's current job, and its id never enters
\* applied_jobs: no skip and no send has ever acted on it.
C13_UnusableNeverSelected ==
  \A j \in JobIds :
    ~HasAt(jobs_df[j + 1].contact) =>
      /\ Selected # Some(j)
      /\ session_state.current_job_id # Some(j)
      /\ ToString(j) \notin db.applied_jobs
      /\ hist[j] = NoHist[j]

\* C13 witness: row 0 has no contact, row 1 has a string without "@"; the
\* only usable row, 2, was selected and skipped, and nothing is left.
C13_Witness ==
  /\ jobs_df[1].contact = NaN
  /\ jobs_df[2].contact = <<"a">>
  /\ last.op = "skip" /\ last.outcome = "ok" /\ last.job = Some(2)
  /\ db.applied_jobs = {"2"}
  /\ Selected = None


\* C14: a run of the job finder with no button pressed writes nothing to the
\* user's document, the sent_emails collection or the mailbox, and a second
\* such run right after the first selects the same job and leaves the session
\* as the first run left it.
C14_SelectionIsPureQuery ==
  [][last'.op = "finder" =>
       /\ db' = db
       /\ outbox' = outbox
       /\ hist' = hist
       /\ session_state'.current_job_id \in {Selected, session_state.current_job_id}
       /\ Selected # None => session_state'.current_job_id = Selected
       /\ last.op = "finder" =>
            /\ last'.job = last.job
            /\ session_state' = session_state]_vars

\* C14 witness: the finder ran on a profile with progress and selected the
\* first job that is left.
C14_Witness ==
  /\ last.op = "finder"
  /\ db.applied_jobs = {"0"}
  /\ db.stats.sent_count = 0
  /\ last.job = Some(1)
  /\ session_state.current_job_id = Some(1)
  /\ session_state.generated_email_content = None


\* C15: the three writes of a catalog send are seen all together or not at
\* all: in every reachable state each job has as many sent_emails records as
\* increments of sent_count, and a job with a record is in applied_jobs.
C15_CommitAtomic ==
  \A j \in JobIds :
    /\ hist[j].records = hist[j].sent
    /\ hist[j].records > 0 => ToString(j) \in db.applied_jobs


\* C16: after a completed skip or a completed send of job J no draft of J is
\* left in the session: current_job_id is not J, generated_email_content is
\* empty, and when nothing is left to select current_job_id is empty too.
C16_DraftCleared ==
  (last.op \in {"skip", "send"} /\ last.outcome = "ok") =>
     /\ session_state.current_job_id # last.job
     /\ session_state.generated_email_content = None
     /\ Selected = None => session_state.current_job_id = None


\* C17: opening a page, a finder run, preparing a draft (again or for the
\* first time) and ending the session write nothing to applied_jobs, the
\* counters, the sent records or the mailbox; the selection is the same
\* afterwards, and a finder run that follows the end of a session makes that
\* selection the session's current job with no draft.
C17_DraftingLeavesProfile ==
  [][/\ last'.op \in {"open", "finder", "prepare", "end"} =>
          /\ db'.applied_jobs = db.applied_jobs
          /\ db'.stats = db.stats
          /\ db'.sent_emails = db.sent_emails
          /\ outbox' = outbox
          /\ hist' = hist
          /\ Selected' = Selected
     /\ (last.op = "end" /\ last'.op = "finder" /\ Selected # None) =>
          /\ session_state'.current_job_id = Selected
          /\ session_state'.generated_email_content = None]_vars

\* C17 witness: a draft was prepared for the selected job, the user went to
\* another page, and the job is still the selection of an untouched profile.
C17_Witness ==
  /\ last.op = "open"
  /\ session_state.generated_email_content # None
  /\ session_state.current_job_id = Some(1)
  /\ Selected = Some(1)
  /\ db.applied_jobs = {"0"}
  /\ db.stats = [sent_count |-> 0, skipped_count |-> 1]
  /\ db.sent_emails = <<>>


\* C18: whenever the session holds a current job id, current_job_details
\* describes that job; in a run that shows a job (and so the Skip button and
\* the form), after lines 222-231 both are the job line 216 selected from the
\* document read in that run; and a skip or a send adds to applied_jobs no id
\* but that job's, and adds it when it completes.
C18_ActsOnSelectedJob ==
  /\ [](session_state.current_job_id # None =>
          /\ session_state.current_job_details # None
          /\ Val(session_state.current_job_details).job_id =
               Val(session_state.current_job_id))
  /\ [](JobShown =>
          LET w == SelectJob(LoadProfile(World), jobs_df, Val(Selected)) IN
            /\ w.ss.current_job_id = Selected
            /\ Val(w.ss.current_job_details).job_id = Val(Selected)
            /\ Val(w.ss.current_job_details).contact_email =
                 FirstAddress(jobs_df[Val(Selected) + 1].contact))
  /\ [][last'.op \in {"skip", "send"} =>
          /\ db'.applied_jobs \subseteq
               db.applied_jobs \cup {ToString(Val(Selected))}
          /\ last'.outcome = "ok" =>
               ToString(Val(Selected)) \in db'.applied_jobs]_vars

\* C18 witness: job 0 was skipped, job 1 was then selected and sent, and the
\* session holds job 2 with its own details.
C18_Witness ==
  /\ last.op = "send" /\ last.outcome = "ok" /\ last.job = Some(1)
  /\ hist[0].skipped = 1
  /\ db.applied_jobs = {"0", "1"}
  /\ session_state.current_job_id = Some(2)
  /\ Val(session_state.current_job_details).job_id = 2


\* C19: in one session that starts from an empty profile and in which every
\* store write succeeds, after every operation sent_count + skipped_count is
\* the number of ids in applied_jobs and the number of sent_emails records
\* is sent_count.
C19_CountersMatchApplied ==
  /\ db.stats.sent_count + db.stats.skipped_count =
       Cardinality(db.applied_jobs)
  /\ Len(db.sent_emails) = db.stats.sent_count

\* C19 witness: two jobs were skipped and one was sent.
C19_Witness ==
  /\ db.stats.skipped_count = 2
  /\ db.stats.sent_count = 1
  /\ Cardinality(db.applied_jobs) = 3
  /\ Len(db.sent_emails) = 1
  /\ last.op = "send" /\ last.outcome = "ok"


\* The rows line 216 can return for the stored applied_jobs.
SelectableSet ==
  { j \in JobIds : Selectable(db.applied_jobs, j, jobs_df[j + 1]) }

\* C20: no step adds a row to the set the selection can return; a completed
\* skip or a completed send removes exactly the selected row from it; and a
\* user who keeps skipping or sending reaches the state in which nothing is
\* selected, which is never left.
C20_ProgressToExhaustion ==
  /\ [][/\ SelectableSet' \subseteq SelectableSet
        /\ (last'.op \in {"skip", "send"} /\ last'.outcome = "ok") =>
             /\ Val(Selected) \in SelectableSet
             /\ SelectableSet' = SelectableSet \ {Val(Selected)}
        /\ Selected = None => Selected' = None]_vars
  /\ <>[](Selected = None)

\* C20 witness: a catalog of three usable rows was worked through by skips
\* and a send, and nothing is left to select.
C20_Witness ==
  /\ \A j \in JobIds : HasAt(jobs_df[j + 1].contact)
  /\ db.applied_jobs = {"0", "1", "2"}
  /\ db.stats.sent_count = 1
  /\ db.stats.skipped_count = 2
  /\ Selected = None

====
